---- MODULE Spec2Model ----
(***************************************************************************)
(* Model of pointingSimIoc.py: the process-variable groups                 *)
(* SimCameraCentroid, SimMotor, MovingDot and PointingSimulator, their     *)
(* startup, scan, getter and putter callbacks, and the write requests of   *)
(* external clients.                                                       *)
(*                                                                         *)
(* Units.  Float-valued variables (centroids, NOISE, nominals, factors,    *)
(* exp, mtrx, mtry, current) are held in tenths: 3.2 is 32, -5 is -50.     *)
(* Integer-valued variables (STEPS, VOLTAGE, shutter_open, array sizes)    *)
(* and photon counts (ArrayData, img_sum) are held as they are.            *)
(***************************************************************************)
EXTENDS Integers, Sequences, FiniteSets, TLC

VARIABLES
    assembly,   \* which group tree the server hosts
    width,      \* SimCameraCentroid.width  (pixels)
    height,     \* SimCameraCentroid.height (pixels)
    pvdb,       \* the value of every process variable, by name
    xcurrent,   \* the attribute self.xcurrent: <<>> while absent, <<v>> once set
    ycurrent,   \* the attribute self.ycurrent: <<>> while absent, <<v>> once set
    started,    \* the startup hooks that have run
    now,        \* the last reading of time.monotonic(), in time units
    gpc,        \* position of the ArrayData getter: "idle" or "ret"
    gret,       \* the frame the getter is about to return while it is suspended
    last        \* the last operation: [op, pv, val]

vars == <<assembly, width, height, pvdb, xcurrent, ycurrent, started, now,
          gpc, gret, last>>

----------------------------------------------------------------------------
(* Bounds of the model *)

\* random_sample() draws r = k / RDen for k in 0 .. RDen-1
RDen == 3
\* pixels of the N*M frame that the model tracks
FramePixels == 2
\* largest reading of the monotonic clock, in time units
MaxTime == 4

----------------------------------------------------------------------------
(* Program constants *)

N == 480
M == 640
background == 1000
N_per_I_per_s == 200

\* The camera geometries named in the source (NF and FF cameras)
Dims == { <<2592, 1944>>, <<1440, 1080>> }

CameraPVs == {"Centroid_X", "Centroid_Y", "NOISE", "NOMINAL_X", "NOMINAL_Y",
              "XFACTOR", "YFACTOR"}
MotorPVs == {"STEPS", "VOLTAGE"}
DotPVs == {"ArrayData", "img_sum", "mtrx", "mtry", "exp", "shutter_open",
           "ArraySizeY_RBV", "ArraySizeX_RBV", "ArraySize_RBV"}
SimulatorPVs == {"current"}
PVNames == CameraPVs \cup MotorPVs \cup DotPVs \cup SimulatorPVs

\* mutant of ReadOnly: the read_only flag is not honoured
ReadOnly_Ignored(pv) == FALSE

\* mutant of ReadOnly: the motor readbacks are declared read-only too
ReadOnly_Motor(pv) ==
    pv \in {"Centroid_X", "Centroid_Y", "ArrayData", "img_sum",
            "ArraySizeY_RBV", "ArraySizeX_RBV", "ArraySize_RBV", "current",
            "STEPS", "VOLTAGE"}

\* read_only=True in the declaration
ReadOnly(pv) ==
    pv \in {"Centroid_X", "Centroid_Y", "ArrayData", "img_sum",
            "ArraySizeY_RBV", "ArraySizeX_RBV", "ArraySize_RBV", "current"}

ZeroFrame == [i \in 1..FramePixels |-> 0]

\* value= in the declaration
Default(pv) ==
    CASE pv = "Centroid_X" -> 0
      [] pv = "Centroid_Y" -> 0
      [] pv = "NOISE" -> 50
      [] pv = "NOMINAL_X" -> 0
      [] pv = "NOMINAL_Y" -> 0
      [] pv = "XFACTOR" -> 10
      [] pv = "YFACTOR" -> 10
      [] pv = "STEPS" -> 0
      [] pv = "VOLTAGE" -> 0
      [] pv = "ArrayData" -> ZeroFrame
      [] pv = "img_sum" -> 0
      [] pv = "mtrx" -> 0
      [] pv = "mtry" -> 0
      [] pv = "exp" -> 10
      [] pv = "shutter_open" -> 1
      [] pv = "ArraySizeY_RBV" -> N
      [] pv = "ArraySizeX_RBV" -> M
      [] pv = "ArraySize_RBV" -> <<N, M>>
      [] pv = "current" -> 5000

----------------------------------------------------------------------------
(* Pure helpers *)

\* integer division rounding toward zero
TruncDiv(a, b) == IF a >= 0 THEN a \div b ELSE -((-a) \div b)

\* mutant of Half: the full extent instead of half of it
Half_Full(w) == 10 * w

\* self.width/2 and self.height/2, in tenths
Half(w) == 5 * w

\* mutant of Clip: the clamp is missing
Clip_NoClamp(value) == value

\* np.clip(value, a_min=0, a_max=None)
Clip(value) == IF value < 0 THEN 0 ELSE value

\* the putter hook of a variable: what a write of `value` stores
Putter(pv, value) == IF pv = "exp" THEN Clip(value) ELSE value

\* mutant of PixelNoise: the symmetric offset (2*r - 1)*NOISE
PixelNoise_Symmetric(k, noise) == TruncDiv((2 * k - RDen) * noise, RDen)

\* np.random.random_sample()*(2*NOISE - 1.0) for the draw k/RDen, in tenths
PixelNoise(k, noise) == TruncDiv(k * (2 * noise - 10), RDen)

DrawLevels == 0 .. (RDen - 1)

\* sin(2*pi*t/4) in thousandths, for t whole time units (taken mod 4)
SinMilli(t) ==
    CASE t % 4 = 0 -> 0
      [] t % 4 = 1 -> 1000
      [] t % 4 = 2 -> 0
      [] t % 4 = 3 -> -1000

\* mutant of CurrentAt: amplitude 50 instead of 25
CurrentAt_Amplitude50(t) == 5000 + TruncDiv(500 * SinMilli(t), 1000)

\* 500 + 25 * np.sin(time.monotonic() * (2 * np.pi) / 4), in tenths
CurrentAt(t) == 5000 + TruncDiv(250 * SinMilli(t), 1000)

RECURSIVE SumTo(_, _)
SumTo(f, n) == IF n = 0 THEN 0 ELSE f[n] + SumTo(f, n - 1)
\* ndarray.sum() over the tracked pixels
Sum(f) == SumTo(f, FramePixels)

\* the counts one Poisson sample is drawn from in the model
Counts == {0, 1}

\* the values np.random.poisson(lam) can return: none for lam < 0 (it
\* raises), 0 alone for lam = 0, any count otherwise
Poisson(lam) == IF lam < 0 THEN {} ELSE IF lam = 0 THEN {0} ELSE Counts

\* the Gaussian profile exp(-(X^2+Y^2)/2)*exp(-(x^2+y^2)/100^2) of a pixel:
\* strictly positive whatever x and y are; only its sign reaches the model
Dot(x, y) == 1

\* self.parent.N_per_I_per_s * dot * e * I for one pixel
Measured(x, y, e, I) == N_per_I_per_s * Dot(x, y) * e * I

\* np.random.poisson(self.background, (N, M))
BackFields == [1..FramePixels -> Poisson(background)]

\* np.random.poisson(measured)
DotFields(x, y, e, I) == [1..FramePixels -> Poisson(Measured(x, y, e, I))]

\* the frame the getter returns for the samples back and dot
Render(shutter, back, dot) ==
    IF shutter = 0 THEN back ELSE [i \in 1..FramePixels |-> back[i] + dot[i]]

\* mutant of ImgSum: the open branch publishes back.sum() as well
ImgSum_AlwaysBack(shutter, back, ret) == Sum(back)

\* the total the getter hands to img_sum.write: back.sum() on the closed
\* branch, ret.sum() on the open one
ImgSum(shutter, back, ret) == IF shutter = 0 THEN Sum(back) ELSE Sum(ret)

----------------------------------------------------------------------------
(* The hosted tree and the external clients *)

Assemblies == {"camera", "pointing", "imaging"}

\* the variables of the tree the server hosts
Hosted(a) ==
    CASE a = "camera" -> CameraPVs
      [] a = "pointing" -> CameraPVs \cup MotorPVs
      [] a = "imaging" -> DotPVs \cup SimulatorPVs

SevenFrame == [i \in 1..FramePixels |-> 7]

\* the values the modelled clients ask to write
WriteVals(a, pv) ==
    CASE pv \in {"Centroid_X", "Centroid_Y"} -> {70}
      [] pv = "NOISE" -> IF a = "camera" THEN {0, 5} ELSE {}
      [] pv = "NOMINAL_X" -> IF a = "camera" THEN {30000} ELSE {}
      [] pv = "NOMINAL_Y" -> IF a = "camera" THEN {-100} ELSE {}
      [] pv \in {"XFACTOR", "YFACTOR"} -> {20}
      [] pv = "STEPS" -> {10}
      [] pv = "VOLTAGE" -> {1}
      [] pv = "ArrayData" -> {SevenFrame}
      [] pv = "img_sum" -> {7}
      [] pv \in {"mtrx", "mtry"} -> {100}
      [] pv = "exp" -> {-50, 32}
      [] pv = "shutter_open" -> {0, 1}
      [] pv \in {"ArraySizeY_RBV", "ArraySizeX_RBV"} -> {7}
      [] pv = "ArraySize_RBV" -> {<<7, 7>>}
      [] pv = "current" -> {70}

Op(op, pv, val) == [op |-> op, pv |-> pv, val |-> val]

----------------------------------------------------------------------------
(* Initial state: the tree as constructed, no hook run yet *)

Init ==
    /\ assembly \in Assemblies
    /\ \E d \in Dims :
          /\ assembly = "camera" \/ d = <<2592, 1944>>
          /\ width = d[1]
          /\ height = d[2]
    /\ pvdb = [pv \in PVNames |-> Default(pv)]
    /\ xcurrent = <<>>
    /\ ycurrent = <<>>
    /\ started = {}
    /\ now = 0
    /\ gpc = "idle"
    /\ gret = <<>>
    /\ last = Op("init", "", 0)

----------------------------------------------------------------------------
(* instance.write(value): an internal write goes through the putter hook *)

Write(pv, value) == pvdb' = [pvdb EXCEPT ![pv] = Putter(pv, value)]

(* A write request of an external client.  A read-only variable refuses  *)
(* it; a writable one stores what its putter returns.                     *)
ExternalWrite(pv, value) ==
    /\ pv \in Hosted(assembly)
    /\ pvdb' = IF ReadOnly(pv)
                  THEN pvdb
                  ELSE [pvdb EXCEPT ![pv] = Putter(pv, value)]
    /\ last' = Op(IF ReadOnly(pv) THEN "denied" ELSE "put", pv, value)
    /\ UNCHANGED <<assembly, width, height, xcurrent, ycurrent, started, now,
                   gpc, gret>>

ClientWrite ==
    \E pv \in Hosted(assembly) : \E value \in WriteVals(assembly, pv) :
        ExternalWrite(pv, value)

----------------------------------------------------------------------------
(* SimCameraCentroid                                                       *)
(*                                                                         *)
(* The startup hooks and the scan loops are all handed to the server when  *)
(* it starts, and the code orders none of them against another: each is a  *)
(* task of its own, and the model lets their steps interleave freely.  A   *)
(* tick stores its value before its await can suspend, so it is one step.  *)

HasCamera == assembly \in {"camera", "pointing"}

\* mutant of StartupNominalX: one hook centers both axes
StartupNominalX_BothAxes ==
    /\ HasCamera
    /\ "NOMINAL_X" \notin started
    /\ pvdb' = [pvdb EXCEPT !["NOMINAL_X"] = Half(width),
                            !["NOMINAL_Y"] = Half(height)]
    /\ started' = started \cup {"NOMINAL_X"}
    /\ last' = Op("startup", "NOMINAL_X", 0)
    /\ UNCHANGED <<assembly, width, height, xcurrent, ycurrent, now,
                   gpc, gret>>

\* @NOMINAL_X.startup
StartupNominalX ==
    /\ HasCamera
    /\ "NOMINAL_X" \notin started
    /\ Write("NOMINAL_X", Half(width))
    /\ started' = started \cup {"NOMINAL_X"}
    /\ last' = Op("startup", "NOMINAL_X", 0)
    /\ UNCHANGED <<assembly, width, height, xcurrent, ycurrent, now,
                   gpc, gret>>

\* @NOMINAL_Y.startup
StartupNominalY ==
    /\ HasCamera
    /\ "NOMINAL_Y" \notin started
    /\ Write("NOMINAL_Y", Half(height))
    /\ started' = started \cup {"NOMINAL_Y"}
    /\ last' = Op("startup", "NOMINAL_Y", 0)
    /\ UNCHANGED <<assembly, width, height, xcurrent, ycurrent, now,
                   gpc, gret>>

\* mutant of NextXCurrent: no first-tick default
NextXCurrent_NoDefault(k) == pvdb["NOMINAL_X"] + PixelNoise(k, pvdb["NOISE"])

\* mutant of NextXCurrent: the noise is added to the cached last value
NextXCurrent_Cached(k) ==
    IF xcurrent # <<>>
        THEN xcurrent[1] + PixelNoise(k, pvdb["NOISE"])
        ELSE Half(width)

\* mutant of NextXCurrent: the value is clamped to the frame
NextXCurrent_Clamped(k) ==
    IF xcurrent # <<>>
        THEN LET v == pvdb["NOMINAL_X"] + PixelNoise(k, pvdb["NOISE"])
             IN  IF v < 0 THEN 0 ELSE IF v > 10 * width THEN 10 * width ELSE v
        ELSE Half(width)

\* the value one Centroid_X tick computes, for the draw k
NextXCurrent(k) ==
    IF xcurrent # <<>>
        THEN pvdb["NOMINAL_X"] + PixelNoise(k, pvdb["NOISE"])
        ELSE Half(width)

\* the value one Centroid_Y tick computes, for the draw k
NextYCurrent(k) ==
    IF ycurrent # <<>>
        THEN pvdb["NOMINAL_Y"] + PixelNoise(k, pvdb["NOISE"])
        ELSE Half(height)

\* mutant of ScanCentroidX: one first-call flag shared by both axes
ScanCentroidX_SharedFlag ==
    /\ HasCamera
    /\ \E k \in DrawLevels :
          /\ xcurrent' = <<NextXCurrent(k)>>
          /\ ycurrent' = <<NextXCurrent(k)>>
          /\ Write("Centroid_X", NextXCurrent(k))
    /\ last' = Op("scan", "Centroid_X", 0)
    /\ UNCHANGED <<assembly, width, height, started, now, gpc, gret>>

\* @Centroid_X.scan(period=0.2): one tick
ScanCentroidX ==
    /\ HasCamera
    /\ \E k \in DrawLevels :
          /\ xcurrent' = <<NextXCurrent(k)>>
          /\ Write("Centroid_X", NextXCurrent(k))
    /\ last' = Op("scan", "Centroid_X", 0)
    /\ UNCHANGED <<assembly, width, height, ycurrent, started, now,
                   gpc, gret>>

\* @Centroid_Y.scan(period=0.2): one tick
ScanCentroidY ==
    /\ HasCamera
    /\ \E k \in DrawLevels :
          /\ ycurrent' = <<NextYCurrent(k)>>
          /\ Write("Centroid_Y", NextYCurrent(k))
    /\ last' = Op("scan", "Centroid_Y", 0)
    /\ UNCHANGED <<assembly, width, height, xcurrent, started, now,
                   gpc, gret>>

----------------------------------------------------------------------------
(* PointingSimulator and MovingDot                                         *)
(*                                                                         *)
(* The getter awaits img_sum.write before it returns: other tasks and      *)
(* requests may run between the two.  One getter call is in flight at a    *)
(* time.                                                                   *)

HasDot == assembly = "imaging"

\* the tag of a tick of current: consecutive ticks alternate 0 and 1, so
\* that every tick is a step even when the published value repeats
TickTag == IF last.op = "scan" /\ last.pv = "current" THEN 1 - last.val ELSE 0

\* mutant of ScanCurrent: the tick also publishes a frame total
ScanCurrent_RefreshesFrame ==
    /\ HasDot
    /\ \E t \in now .. MaxTime :
          /\ now' = t
          /\ pvdb' = [pvdb EXCEPT !["current"] = CurrentAt(t),
                                  !["img_sum"] = FramePixels * background]
    /\ last' = Op("scan", "current", TickTag)
    /\ UNCHANGED <<assembly, width, height, xcurrent, ycurrent, started,
                   gpc, gret>>

(* @current.scan(period=0.1): one tick, reading the clock at t >= now.   *)
(* The scan loop runs forever: tick, sleep, tick.                         *)
ScanCurrent ==
    /\ HasDot
    /\ \E t \in now .. MaxTime :
          /\ now' = t
          /\ Write("current", CurrentAt(t))
    /\ last' = Op("scan", "current", TickTag)
    /\ UNCHANGED <<assembly, width, height, xcurrent, ycurrent, started,
                   gpc, gret>>

(* @ArrayData.getter, run when a client reads ArrayData; this step goes   *)
(* up to the await of img_sum.write: samples the                          *)
(* background, renders the frame, publishes its total.                    *)
GetterCompute ==
    /\ HasDot
    /\ gpc = "idle"
    /\ \E back \in BackFields :
       \E dot \in IF pvdb["shutter_open"] = 0
                     THEN {ZeroFrame}
                     ELSE DotFields(pvdb["mtrx"], pvdb["mtry"], pvdb["exp"],
                                    pvdb["current"]) :
          /\ gret' = Render(pvdb["shutter_open"], back, dot)
          /\ Write("img_sum",
                   ImgSum(pvdb["shutter_open"], back,
                          Render(pvdb["shutter_open"], back, dot)))
    /\ gpc' = "ret"
    /\ last' = Op("getter", "ArrayData", 0)
    /\ UNCHANGED <<assembly, width, height, xcurrent, ycurrent, started, now>>

\* mutant of GetterReturn: the returned frame is dropped
GetterReturn_NoUpdate ==
    /\ HasDot
    /\ gpc = "ret"
    /\ gpc' = "idle"
    /\ gret' = <<>>
    /\ last' = Op("return", "ArrayData", 0)
    /\ UNCHANGED <<assembly, width, height, pvdb, xcurrent, ycurrent, started,
                   now>>

(* @ArrayData.getter, the return: the returned frame becomes the value   *)
(* of ArrayData.                                                          *)
GetterReturn ==
    /\ HasDot
    /\ gpc = "ret"
    /\ Write("ArrayData", gret)
    /\ gpc' = "idle"
    /\ gret' = <<>>
    /\ last' = Op("return", "ArrayData", 0)
    /\ UNCHANGED <<assembly, width, height, xcurrent, ycurrent, started, now>>

----------------------------------------------------------------------------

Next ==
    \/ ClientWrite
    \/ StartupNominalX
    \/ StartupNominalY
    \/ ScanCentroidX
    \/ ScanCentroidY
    \/ ScanCurrent
    \/ GetterCompute
    \/ GetterReturn

Spec == Init /\ [][Next]_vars

(* The server hosting a camera tree (the camera alone, or with a motor) *)
InitCamera == Init /\ HasCamera

NextCamera ==
    \/ ClientWrite
    \/ StartupNominalX
    \/ StartupNominalY
    \/ ScanCentroidX
    \/ ScanCentroidY

SpecCamera == InitCamera /\ [][NextCamera]_vars

(* The server hosting PointingSimulator: current and the MovingDot NF *)
InitImaging == Init /\ HasDot

NextImaging ==
    \/ ClientWrite
    \/ ScanCurrent
    \/ GetterCompute
    \/ GetterReturn

SpecImaging == InitImaging /\ [][NextImaging]_vars

(* The same server under the scheduling the code gives: the scan loop of  *)
(* current never ends, and a getter suspended at its await is resumed.    *)
(* ArrayData has no scan loop: its getter runs when a client reads the    *)
(* variable, and no client is bound to read.                              *)
SpecImagingFair ==
    /\ SpecImaging
    /\ WF_vars(ScanCurrent)
    /\ WF_vars(GetterReturn)

----------------------------------------------------------------------------
(* Properties *)

\* the step just taken is operation op of variable pv
Did(op, pv) == last'.op = op /\ last'.pv = pv

\* C1: exp starts at 1 and is never negative; a write request on exp is
\* never refused; it stores max(0, v) for the written v (so -5 is stored as
\* 0 and 3.2 as 3.2); and nothing but such a write changes exp, so exp is
\* max(0, v) for the last written v.
C1_ExpClamped ==
    /\ pvdb["exp"] = 10
    /\ [](pvdb["exp"] >= 0)
    /\ [](last.pv = "exp" => last.op = "put")
    /\ [][ /\ Did("put", "exp") =>
                pvdb'["exp"] = (IF last'.val > 0 THEN last'.val ELSE 0)
           /\ pvdb'["exp"] # pvdb["exp"] => Did("put", "exp") ]_vars

\* a write of -5 to exp has just been served and exp holds 0
C1_Witness ==
    /\ last.op = "put"
    /\ last.pv = "exp"
    /\ last.val = -50
    /\ pvdb["exp"] = 0

\* C2: the first Centroid_X tick publishes exactly width/2 and the first
\* Centroid_Y tick exactly height/2, whatever NOISE, NOMINAL_X/Y and
\* XFACTOR/YFACTOR hold at that moment.
C2_FirstTickIsCenter ==
    [][ /\ (Did("scan", "Centroid_X") /\ xcurrent = <<>>) =>
                pvdb'["Centroid_X"] = 5 * width
        /\ (Did("scan", "Centroid_Y") /\ ycurrent = <<>>) =>
                pvdb'["Centroid_Y"] = 5 * height ]_vars

\* the first X tick has just run after external writes to NOISE, NOMINAL_X
\* and XFACTOR: with NOMINAL_X = 3000 a steady-state tick could not have
\* published width/2
C2_Witness ==
    /\ last.op = "scan"
    /\ last.pv = "Centroid_X"
    /\ pvdb["NOISE"] = 0
    /\ pvdb["NOMINAL_X"] = 30000
    /\ pvdb["XFACTOR"] = 20
    /\ pvdb["Centroid_X"] = 5 * width

\* C3: on every Centroid_X tick but the first (taken once the NOMINAL_X
\* startup hook has run), with NOISE >= 0, the published Centroid_X lies in
\* [NOMINAL_X - NOISE, NOMINAL_X + NOISE] (the coupling term is 0: the tick
\* reads neither XFACTOR nor STEPS).
C3_WithinNoiseBand ==
    [][ ( /\ Did("scan", "Centroid_X")
          /\ xcurrent # <<>>
          /\ "NOMINAL_X" \in started
          /\ pvdb["NOISE"] >= 0 )
            => /\ pvdb["NOMINAL_X"] - pvdb["NOISE"] <= pvdb'["Centroid_X"]
               /\ pvdb'["Centroid_X"] <= pvdb["NOMINAL_X"] + pvdb["NOISE"]
      ]_vars

\* C4: width 2592, height 1944, XFACTOR 2.0, tip STEPS 10, NOISE 5 and
\* NOMINAL_X at its startup value 1296: after one Centroid_X tick the
\* published Centroid_X lies in [1311, 1321].
C4_CoupledScenario ==
    [][ ( /\ Did("scan", "Centroid_X")
          /\ xcurrent = <<>>
          /\ assembly = "pointing"
          /\ width = 2592
          /\ height = 1944
          /\ pvdb["XFACTOR"] = 20
          /\ pvdb["STEPS"] = 10
          /\ pvdb["NOISE"] = 50
          /\ pvdb["NOMINAL_X"] = 12960 )
            => /\ 13110 <= pvdb'["Centroid_X"]
               /\ pvdb'["Centroid_X"] <= 13210 ]_vars

C5_ReadOnlyVars ==
    {"Centroid_X", "Centroid_Y", "ArrayData", "img_sum", "current",
     "ArraySizeX_RBV", "ArraySizeY_RBV", "ArraySize_RBV"}

\* C5: an external write request, served or refused, leaves every
\* read-only variable as it was, and every change of a read-only variable
\* is a step of an internal task (a scan tick or the frame getter).
C5_ReadOnlyUntouched ==
    [][ \A pv \in C5_ReadOnlyVars :
            /\ last'.op \in {"put", "denied"} => pvdb'[pv] = pvdb[pv]
            /\ pvdb'[pv] # pvdb[pv] => last'.op \in {"scan", "getter", "return"}
      ]_vars

\* a write request on ArrayData has just been refused, and ArrayData still
\* holds the frame an earlier recompute rendered
C5_Witness ==
    /\ last.op = "denied"
    /\ last.pv = "ArrayData"
    /\ pvdb["ArrayData"] # ZeroFrame
    /\ pvdb["ArrayData"] # last.val

\* C6 as stated: STEPS and VOLTAGE hold their default 0 in every state.
C6_MotorHoldsDefault == pvdb["STEPS"] = 0 /\ pvdb["VOLTAGE"] = 0

\* C6 amended: STEPS and VOLTAGE start at 0 and are writable: a write
\* request on them is never refused and stores the written value, and
\* nothing but such a write changes them (no internal task does).
C6_MotorWritable ==
    /\ pvdb["STEPS"] = 0 /\ pvdb["VOLTAGE"] = 0
    /\ [](last.pv \in MotorPVs => last.op = "put")
    /\ [][ \A pv \in {"STEPS", "VOLTAGE"} :
              /\ Did("put", pv) => pvdb'[pv] = last'.val
              /\ pvdb'[pv] # pvdb[pv] => Did("put", pv) ]_vars

\* a write of 10 to STEPS has just been served and STEPS holds 10
C6_Witness ==
    /\ last.op = "put"
    /\ last.pv = "STEPS"
    /\ pvdb["STEPS"] = 10
    /\ pvdb["VOLTAGE"] = 1

\* C7 as stated: both NOMINAL startup hooks have completed before the
\* first tick of any periodic task.
C7_StartupBeforeTicks ==
    (xcurrent # <<>> \/ ycurrent # <<>>)
        => started = {"NOMINAL_X", "NOMINAL_Y"}

\* C7 amended: each NOMINAL startup hook runs at most once, writing
\* width/2 resp. height/2, in no fixed order with the periodic ticks; and
\* NOMINAL_X/NOMINAL_Y change only by their own startup hook or by an
\* external write, so from its startup on each holds the geometric centre
\* unless an external write has changed it since.
C7_StartupOnce ==
    [][ /\ Did("startup", "NOMINAL_X") =>
                /\ "NOMINAL_X" \notin started
                /\ "NOMINAL_X" \in started'
                /\ pvdb'["NOMINAL_X"] = 5 * width
        /\ Did("startup", "NOMINAL_Y") =>
                /\ "NOMINAL_Y" \notin started
                /\ "NOMINAL_Y" \in started'
                /\ pvdb'["NOMINAL_Y"] = 5 * height
        /\ started \subseteq started'
        /\ \A pv \in {"NOMINAL_X", "NOMINAL_Y"} :
                pvdb'[pv] # pvdb[pv] =>
                    (Did("startup", pv) \/ Did("put", pv)) ]_vars

\* the NOMINAL_X startup hook has just run, after the first Centroid_X tick
C7_Witness ==
    /\ last.op = "startup"
    /\ last.pv = "NOMINAL_X"
    /\ xcurrent # <<>>
    /\ pvdb["NOMINAL_X"] = 5 * width

RECURSIVE C8_Total(_, _)
C8_Total(f, n) == IF n = 0 THEN 0 ELSE f[n] + C8_Total(f, n - 1)

\* C8: a frame recompute publishes as img_sum the total of the frame it
\* returns, in either shutter state; with the shutter closed that frame is
\* a sampled background field, whatever mtrx, mtry, exp and current hold;
\* with the shutter open it is a background field plus a sampled dot (no
\* dot counts when exp is 0); and the frame handed back becomes ArrayData.
C8_ImgSumIsFrameTotal ==
    [][ /\ last'.op = "getter" =>
              /\ pvdb'["img_sum"] = C8_Total(gret', FramePixels)
              /\ pvdb["shutter_open"] = 0 => gret' \in BackFields
              /\ pvdb["shutter_open"] # 0 =>
                    \E back \in BackFields :
                        \A i \in 1..FramePixels :
                            (gret'[i] - back[i]) \in
                                (IF pvdb["exp"] = 0 THEN {0} ELSE Counts)
        /\ last'.op = "return" =>
              /\ pvdb'["ArrayData"] = gret
              /\ pvdb'["img_sum"] = pvdb["img_sum"] ]_vars

\* a recompute with the shutter closed has just published the total of a
\* non-empty background frame, after writes to mtrx, mtry and exp
C8_Witness ==
    /\ last.op = "getter"
    /\ pvdb["shutter_open"] = 0
    /\ pvdb["mtrx"] = 100
    /\ pvdb["mtry"] = 100
    /\ pvdb["exp"] = 32
    /\ gret \in BackFields
    /\ pvdb["img_sum"] = FramePixels

\* C9: a tick of `current` publishes 500 + 25*sin(2*pi*t/4) for the clock
\* reading t, a value within [475, 525], and leaves every other variable
\* and the getter's state unchanged.
C9_CurrentIsTimeOnly ==
    [][ Did("scan", "current") =>
            /\ now' >= now
            /\ pvdb'["current"] = 5000 + TruncDiv(250 * SinMilli(now'), 1000)
            /\ 4750 <= pvdb'["current"]
            /\ pvdb'["current"] <= 5250
            /\ \A pv \in PVNames \ {"current"} : pvdb'[pv] = pvdb[pv]
            /\ UNCHANGED <<gpc, gret>> ]_vars

\* a tick of current has just published the peak 525, after writes to exp,
\* mtrx and shutter_open
C9_Witness ==
    /\ last.op = "scan"
    /\ last.pv = "current"
    /\ pvdb["current"] = 5250
    /\ pvdb["exp"] = 0
    /\ pvdb["mtrx"] = 100
    /\ pvdb["shutter_open"] = 0

\* C10: each axis starts uninitialized (its attribute absent); only its
\* own tick initializes it, every tick of it leaves it initialized, and it
\* never becomes uninitialized again; a tick of one axis changes neither
\* the flag nor the published value of the other.
C10_AxisStateMachine ==
    /\ xcurrent = <<>> /\ ycurrent = <<>>
    /\ [][ /\ xcurrent # <<>> => xcurrent' # <<>>
           /\ ycurrent # <<>> => ycurrent' # <<>>
           /\ (xcurrent = <<>> /\ xcurrent' # <<>>) => Did("scan", "Centroid_X")
           /\ (ycurrent = <<>> /\ ycurrent' # <<>>) => Did("scan", "Centroid_Y")
           /\ Did("scan", "Centroid_X") =>
                 /\ xcurrent' # <<>>
                 /\ ycurrent' = ycurrent
                 /\ pvdb'["Centroid_Y"] = pvdb["Centroid_Y"]
           /\ Did("scan", "Centroid_Y") =>
                 /\ ycurrent' # <<>>
                 /\ xcurrent' = xcurrent
                 /\ pvdb'["Centroid_X"] = pvdb["Centroid_X"] ]_vars

\* the X axis is in steady state (it has published a noisy value) while
\* the Y axis is still uninitialized, after startup hooks and writes
C10_Witness ==
    /\ xcurrent # <<>>
    /\ ycurrent = <<>>
    /\ started = {"NOMINAL_X", "NOMINAL_Y"}
    /\ pvdb["NOISE"] = 0
    /\ pvdb["Centroid_X"] < pvdb["NOMINAL_X"]
    /\ pvdb["Centroid_X"] # 5 * width
    /\ pvdb["Centroid_Y"] = 0

\* C11 as stated: every recompute is one atomic step: img_sum is always the
\* total of ArrayData, and while a frame recompute is between its two
\* writes nothing runs but its own return.
C11_RecomputeAtomic ==
    /\ [](pvdb["img_sum"] = C8_Total(pvdb["ArrayData"], FramePixels))
    /\ [][gpc = "ret" => Did("return", "ArrayData")]_vars

\* C11 amended: a centroid tick and a current tick are one step each,
\* setting the axis attribute and the published value together and leaving
\* a suspended frame recompute alone; the frame recompute is two steps: it
\* publishes img_sum, is suspended, and on its return the frame it rendered
\* before the suspension becomes ArrayData, whatever was written meanwhile.
C11_FrameRecomputeTwoSteps ==
    [][ /\ (gpc = "ret" /\ gpc' = "ret") => gret' = gret
        /\ (gpc = "ret" /\ gpc' # "ret") =>
              /\ Did("return", "ArrayData")
              /\ pvdb'["ArrayData"] = gret
              /\ pvdb'["img_sum"] = pvdb["img_sum"]
        /\ (gpc = "idle" /\ gpc' # "idle") =>
              /\ Did("getter", "ArrayData")
              /\ pvdb'["ArrayData"] = pvdb["ArrayData"]
              /\ pvdb'["img_sum"] = C8_Total(gret', FramePixels)
        /\ Did("scan", "current") => (gpc' = gpc /\ gret' = gret)
        /\ Did("scan", "Centroid_X") => xcurrent' = <<pvdb'["Centroid_X"]>>
        /\ Did("scan", "Centroid_Y") => ycurrent' = <<pvdb'["Centroid_Y"]>>
      ]_vars

\* a write to shutter_open has just taken effect while a frame recompute is
\* suspended, and img_sum is not the total of ArrayData
C11_Witness ==
    /\ gpc = "ret"
    /\ last.op = "put"
    /\ last.pv = "shutter_open"
    /\ last.val = 0
    /\ pvdb["shutter_open"] = 0
    /\ pvdb["img_sum"] # C8_Total(pvdb["ArrayData"], FramePixels)
    /\ pvdb["img_sum"] = C8_Total(gret, FramePixels)

\* the control variables of the frame
C12_FrameKnobs == {"shutter_open", "mtrx", "mtry", "exp"}

\* C12 as stated: under fair scheduling, after any change of shutter_open,
\* mtrx, mtry or exp the frame and img_sum are eventually recomputed,
\* whether or not a client reads the frame.
C12_FrameEventuallyRefreshed ==
    (last.op = "put" /\ last.pv \in C12_FrameKnobs)
        ~> (last.op = "getter" /\ last.pv = "ArrayData")

\* C12 amended: current is recomputed by its own periodic task and by
\* nothing else; the frame and img_sum have no periodic task: they change
\* only in a step of the ArrayData getter, which a client read starts, and
\* a tick of current leaves them as they are.
C12_FrameRefreshedOnRead ==
    [][ /\ (\/ pvdb'["ArrayData"] # pvdb["ArrayData"]
            \/ pvdb'["img_sum"] # pvdb["img_sum"]) =>
                (last'.op \in {"getter", "return"} /\ last'.pv = "ArrayData")
        /\ pvdb'["current"] # pvdb["current"] => Did("scan", "current")
        /\ Did("scan", "current") =>
                /\ pvdb'["ArrayData"] = pvdb["ArrayData"]
                /\ pvdb'["img_sum"] = pvdb["img_sum"]
      ]_vars

\* shutter_open was changed, current has ticked twice in a row since, no
\* client has read the frame, and the frame and img_sum are still the old
\* ones
C12_Witness ==
    /\ last.op = "scan"
    /\ last.pv = "current"
    /\ last.val = 1
    /\ pvdb["shutter_open"] = 0
    /\ pvdb["ArrayData"] = ZeroFrame
    /\ pvdb["img_sum"] = 0
    /\ gpc = "idle"

\* the offset off (tenths) lies between 0 and 2*NOISE - 1, the far end
\* excluded
C13_InBand(off, noise) ==
    /\ noise > 5 => (0 <= off /\ off < 2 * noise - 10)
    /\ noise < 5 => (2 * noise - 10 < off /\ off <= 0)
    /\ noise = 5 => off = 0

\* C13: on every steady-state tick the published centroid minus the nominal
\* center lies in [0, 2*NOISE - 1) when NOISE > 0.5, in (2*NOISE - 1, 0]
\* when NOISE < 0.5 and is 0 when NOISE = 0.5; so with NOISE >= 0.5 the
\* centroid is never below nominal, and with NOISE = 0 it is within 1 of it.
C13_NoiseOffset ==
    [][ /\ (Did("scan", "Centroid_X") /\ xcurrent # <<>>) =>
              /\ C13_InBand(pvdb'["Centroid_X"] - pvdb["NOMINAL_X"],
                            pvdb["NOISE"])
              /\ pvdb["NOISE"] >= 5 =>
                    pvdb'["Centroid_X"] >= pvdb["NOMINAL_X"]
              /\ pvdb["NOISE"] = 0 =>
                    pvdb'["Centroid_X"] > pvdb["NOMINAL_X"] - 10
        /\ (Did("scan", "Centroid_Y") /\ ycurrent # <<>>) =>
              /\ C13_InBand(pvdb'["Centroid_Y"] - pvdb["NOMINAL_Y"],
                            pvdb["NOISE"])
              /\ pvdb["NOISE"] >= 5 =>
                    pvdb'["Centroid_Y"] >= pvdb["NOMINAL_Y"]
              /\ pvdb["NOISE"] = 0 =>
                    pvdb'["Centroid_Y"] > pvdb["NOMINAL_Y"] - 10
      ]_vars

\* a steady-state Centroid_X tick has just published a value below the
\* nominal center, less than 1 away, with NOISE = 0
C13_Witness ==
    /\ last.op = "scan"
    /\ last.pv = "Centroid_X"
    /\ pvdb["NOISE"] = 0
    /\ "NOMINAL_X" \in started
    /\ pvdb["Centroid_X"] < pvdb["NOMINAL_X"]
    /\ pvdb["Centroid_X"] > pvdb["NOMINAL_X"] - 10

\* C14 as stated: every step, internal or external, changes no variable
\* other than the one it is registered on or asked to write.
C14_OwnVariableOnly ==
    [][ pvdb' = [pvdb EXCEPT ![last'.pv] = pvdb'[last'.pv]] ]_vars

\* C14 amended: the same, with one exception: the ArrayData getter also
\* writes img_sum; img_sum is changed by nothing else, and every variable
\* but img_sum is changed only by an external write request on it or by a
\* startup, scan or getter task registered on it.
C14_OneWriterButImgSum ==
    [][ IF Did("getter", "ArrayData")
            THEN pvdb' = [pvdb EXCEPT !["img_sum"] = pvdb'["img_sum"]]
            ELSE /\ pvdb' = [pvdb EXCEPT ![last'.pv] = pvdb'[last'.pv]]
                 /\ pvdb'["img_sum"] = pvdb["img_sum"]
                 /\ pvdb' # pvdb =>
                        last'.op \in {"put", "startup", "scan", "return"}
      ]_vars

\* the ArrayData getter has just changed img_sum, and ArrayData itself is
\* still the frame it was
C14_Witness ==
    /\ last.op = "getter"
    /\ last.pv = "ArrayData"
    /\ pvdb["img_sum"] > 0
    /\ pvdb["ArrayData"] = ZeroFrame

\* the control knobs of the centroid
C15_Knobs == {"NOISE", "NOMINAL_X", "NOMINAL_Y"}

\* C15: once its startup hook (if it has one) has run, a knob changes only
\* by an external write request on it, so it keeps a written value until
\* the next one; and every steady-state tick publishes the value of
\* NOMINAL at the time of the tick plus a draw scaled by the value of NOISE
\* at the time of the tick.
C15_KnobsKeptAndRead ==
    [][ /\ \A knob \in C15_Knobs :
              (pvdb'[knob] # pvdb[knob] /\ (knob = "NOISE" \/ knob \in started))
                  => Did("put", knob)
        /\ (Did("scan", "Centroid_X") /\ xcurrent # <<>>) =>
              \E k \in 0 .. (RDen - 1) :
                  pvdb'["Centroid_X"] =
                      pvdb["NOMINAL_X"]
                          + TruncDiv(k * (2 * pvdb["NOISE"] - 10), RDen)
        /\ (Did("scan", "Centroid_Y") /\ ycurrent # <<>>) =>
              \E k \in 0 .. (RDen - 1) :
                  pvdb'["Centroid_Y"] =
                      pvdb["NOMINAL_Y"]
                          + TruncDiv(k * (2 * pvdb["NOISE"] - 10), RDen)
      ]_vars

\* NOMINAL_X and NOISE hold values written after startup and a Centroid_X
\* tick has just published exactly the written center (the noise term is 0
\* at NOISE = 0.5)
C15_Witness ==
    /\ last.op = "scan"
    /\ last.pv = "Centroid_X"
    /\ "NOMINAL_X" \in started
    /\ pvdb["NOMINAL_X"] = 30000
    /\ pvdb["NOISE"] = 5
    /\ pvdb["Centroid_X"] = 30000

====
